---- MODULE Spec2Model ----
(***************************************************************************)
(* A model of two cores of the repository:                                 *)
(*   - the copy-on-write trie       (src/src/primer/trie.cpp)              *)
(*   - the LRU-K replacer           (src/src/buffer/lru_k_replacer.cpp)    *)
(* The two cores share no state.  SpecTrie runs the trie, SpecLRU the      *)
(* replacer called by one thread, SpecLRUConc the replacer with several    *)
(* threads inside RecordAccess; each leaves the other core's variables     *)
(* alone.                                                                  *)
(***************************************************************************)
EXTENDS Integers, Sequences, FiniteSets, TLC

VARIABLES
    heap,       \* trie: every TrieNode ever allocated, by address 1..Len(heap)
    root_,      \* trie: Trie::root_ of the current handle (NULL: empty trie)
    calls,      \* trie: the number of Put/Remove calls so far
    ops,        \* trie: the last two Put/Remove calls: arguments, receiver, heap before
    got,        \* trie: the last Get on the current handle and what it returned
    k_,                 \* replacer: LRUKReplacer::k_
    mem,                \* replacer: the LRUKNode at each address (live or freed)
    ctr,                \* replacer: the containers *ctr_young_ and *ctr_old_
    curr_size_,         \* replacer: LRUKReplacer::curr_size_
    current_timestamp_, \* replacer: LRUKReplacer::current_timestamp_
    clock,              \* replacer: what time() returns
    lruLast,            \* replacer: the last call: arguments, outcome, state before
    pending             \* replacer: per thread, the RecordAccess that has read the
                        \* clock and has not yet taken latch_

trieVars == <<heap, root_, calls, ops, got>>

lruVars == <<k_, mem, ctr, curr_size_, current_timestamp_, clock, lruLast, pending>>

vars == <<heap, root_, calls, ops, got,
          k_, mem, ctr, curr_size_, current_timestamp_, clock, lruLast, pending>>

(***************************************************************************)
(* Bounds and input domains                                                *)
(***************************************************************************)
\* number of Put/Remove calls in one run
MaxOps == 3

\* replacer_size_: the frame ids are 0 .. NumFrames - 1
NumFrames == 3

\* the largest K a replacer is constructed with
MaxK == 2

\* the largest value the clock reaches
MaxTime == 2

\* the number of threads that call RecordAccess at the same time
NumThreads == 2

\* nullptr: no node has address 0
NULL == 0

\* the bytes a key is made of ('a' and 'b')
Chars == {1, 2}

\* the keys the operations are called with: the empty key, siblings, and a
\* key with its proper prefix and its extension
Keys == {<<>>, <<1>>, <<2>>, <<1, 1>>, <<1, 2>>}

\* the value types T the templates are instantiated with
Types == {"uint32_t", "uint64_t"}

\* typed values: two of one type (replacement), one of another (type mismatch)
Values ==
    {[T |-> "uint32_t", v |-> 1], [T |-> "uint32_t", v |-> 2], [T |-> "uint64_t", v |-> 1]}

(***************************************************************************)
(* Trie nodes                                                              *)
(***************************************************************************)
NoChildren == [c \in {} |-> NULL]

\* The node classes are declared in primer/trie.h; trie.cpp only uses them.
\* TrieNode(children): a plain node
TrieNode(children) ==
    [children |-> children, is_value_node_ |-> FALSE, T |-> "none", value_ |-> 0]

\* TrieNodeWithValue<T>(children, value): a valued node of dynamic type T
TrieNodeWithValue(children, val) ==
    [children |-> children, is_value_node_ |-> TRUE, T |-> val.T, value_ |-> val.v]

\* TrieNode::Clone / TrieNodeWithValue<T>::Clone: a copy of the node, of the
\* same dynamic type, sharing the children and the value
Clone(node) == node

\* std::make_shared: the heap with one more node, at address Len(h) + 1
Alloc(h, node) == Append(h, node)

\* now->children_[c] = child
SetChild(h, now, c, child) ==
    [h EXCEPT ![now].children =
        [d \in (DOMAIN @) \cup {c} |-> IF d = c THEN child ELSE @[d]]]

\* now->children_.erase(c)
EraseChild(h, now, c) ==
    [h EXCEPT ![now].children = [d \in (DOMAIN @) \ {c} |-> @[d]]]

(***************************************************************************)
(* Trie::Get                                                               *)
(***************************************************************************)
NullPtr == [kind |-> "nullptr", T |-> "none", v |-> 0]
Fault == [kind |-> "fault", T |-> "none", v |-> 0]
Pointer(T, v) == [kind |-> "value", T |-> T, v |-> v]

\* Dereferencing a null shared_ptr is undefined: the call faults, or reads
\* whatever is mapped at address 0 and takes the "absent" branch.
NullDeref == {Fault, NullPtr}

\* the traversal loop: the node reached, "absent" when a child is missing,
\* "ub" when cur is null and is dereferenced
RECURSIVE GetWalk(_, _, _)
GetWalk(h, cur, key) ==
    IF key = <<>> THEN [st |-> "at", node |-> cur]
    ELSE IF cur = NULL THEN [st |-> "ub", node |-> NULL]
    ELSE IF Head(key) \notin DOMAIN h[cur].children THEN [st |-> "absent", node |-> NULL]
    ELSE GetWalk(h, h[cur].children[Head(key)], Tail(key))

\* Get without the dynamic_cast test: the stored value is returned as if it were a T
GetNoCast(h, root, key, T) ==
    LET w == GetWalk(h, root, key) IN
    IF w.st = "ub" THEN NullDeref
    ELSE IF w.st = "absent" THEN {NullPtr}
    ELSE IF w.node = NULL THEN NullDeref
    ELSE IF ~h[w.node].is_value_node_ THEN {NullPtr}
    ELSE {Pointer(T, h[w.node].value_)}

\* Get<T>(key) on the trie rooted at root: the set of results the call can have
Get(h, root, key, T) ==
    LET w == GetWalk(h, root, key) IN
    IF w.st = "ub" THEN NullDeref
    ELSE IF w.st = "absent" THEN {NullPtr}
    ELSE IF w.node = NULL THEN NullDeref
    ELSE IF ~h[w.node].is_value_node_ THEN {NullPtr}
    ELSE IF h[w.node].T # T THEN {NullPtr}
    ELSE {Pointer(h[w.node].T, h[w.node].value_)}

(***************************************************************************)
(* Trie::Put                                                               *)
(***************************************************************************)
\* std::make_shared: the heap with one more node, and its address
New(h, node) == [heap |-> Alloc(h, node), p |-> Len(h) + 1]

\* the root the walk starts from: a clone of root_, or a fresh plain node
PutNewRoot(h, root) ==
    IF root # NULL THEN New(h, Clone(h[root])) ELSE New(h, TrieNode(NoChildren))

\* the walk descending into the existing child itself, without cloning it
PutPathChildShared(h, now, c) ==
    IF c \notin DOMAIN h[now].children
    THEN New(h, TrieNode(NoChildren))
    ELSE [heap |-> h, p |-> h[now].children[c]]

\* the child the walk descends to at a prefix byte: a fresh plain node, or a
\* clone of the existing child
PutPathChild(h, now, c) ==
    IF c \notin DOMAIN h[now].children
    THEN New(h, TrieNode(NoChildren))
    ELSE New(h, Clone(h[h[now].children[c]]))

\* an existing terminal node kept as it is (cloned) instead of being replaced
PutTerminalKeepOld(h, now, c, val) ==
    IF c \notin DOMAIN h[now].children
    THEN New(h, TrieNodeWithValue(NoChildren, val))
    ELSE New(h, Clone(h[h[now].children[c]]))

\* the terminal node built without the existing child's children
PutTerminalNoChildren(h, now, c, val) == New(h, TrieNodeWithValue(NoChildren, val))

\* the terminal node: a valued node, with the existing child's children if any
PutTerminal(h, now, c, val) ==
    IF c \notin DOMAIN h[now].children
    THEN New(h, TrieNodeWithValue(NoChildren, val))
    ELSE New(h, TrieNodeWithValue(h[h[now].children[c]].children, val))

\* the loop over key.substr(0, size - 1), then the last byte
RECURSIVE PutWalk(_, _, _, _)
PutWalk(h, now, key, val) ==
    IF Len(key) > 1
    THEN LET n == PutPathChild(h, now, Head(key))
         IN  PutWalk(SetChild(n.heap, now, Head(key), n.p), n.p, Tail(key), val)
    ELSE LET n == PutTerminal(h, now, Head(key), val)
         IN  SetChild(n.heap, now, Head(key), n.p)

\* the empty key: a valued root with the old root's children, if any
PutEmptyKey(h, root, val) ==
    IF root = NULL
    THEN New(h, TrieNodeWithValue(NoChildren, val))
    ELSE New(h, TrieNodeWithValue(h[root].children, val))

\* Put(key, value): the heap after the call and the root of the returned trie
Put(h, root, key, val) ==
    IF key = <<>>
    THEN LET n == PutEmptyKey(h, root, val)
         IN  [heap |-> n.heap, root |-> n.p]
    ELSE LET n == PutNewRoot(h, root)
         IN  [heap |-> PutWalk(n.heap, n.p, key, val), root |-> n.p]

(***************************************************************************)
(* Trie::Remove                                                            *)
(***************************************************************************)
\* the clone of the child on the path, which replaces it in its parent
RemovePathChild(h, now, c) == New(h, Clone(h[h[now].children[c]]))

\* a terminal node with children left as it is, value included
RemoveTerminalLeafOnly(h, now, c, del) ==
    IF DOMAIN h[del].children = {}
    THEN EraseChild(h, now, c)
    ELSE h

\* what is done with the clone del of the terminal node under now
RemoveTerminal(h, now, c, del) ==
    IF DOMAIN h[del].children = {}
    THEN EraseChild(h, now, c)
    ELSE IF h[del].is_value_node_
    THEN LET n == New(h, TrieNode(h[del].children))
         IN  SetChild(n.heap, now, c, n.p)
    ELSE h

\* the loop over key.substr(0, size - 1), then the last byte
RECURSIVE RemoveWalk(_, _, _)
RemoveWalk(h, now, key) ==
    IF Head(key) \notin DOMAIN h[now].children THEN h
    ELSE LET n == RemovePathChild(h, now, Head(key))
             h2 == SetChild(n.heap, now, Head(key), n.p)
         IN  IF Len(key) > 1
             THEN RemoveWalk(h2, n.p, Tail(key))
             ELSE RemoveTerminal(h2, now, Head(key), n.p)

\* the empty key: a plain root with the old root's children, or the same trie
RemoveEmptyKey(h, root) ==
    IF h[root].is_value_node_
    THEN LET n == New(h, TrieNode(h[root].children))
         IN  [heap |-> n.heap, root |-> n.p]
    ELSE [heap |-> h, root |-> root]

\* Remove(key): the heap after the call and the root of the returned trie
Remove(h, root, key) ==
    IF root = NULL THEN [heap |-> h, root |-> root]
    ELSE IF key = <<>> THEN RemoveEmptyKey(h, root)
    ELSE LET n == New(h, Clone(h[root]))
         IN  [heap |-> RemoveWalk(n.heap, n.p, key), root |-> n.p]

(***************************************************************************)
(* The trie as a state machine: one handle, replaced by the result of each *)
(* Put/Remove.  ops keeps the last two calls, each with its receiver and  *)
(* the heap before it, so that the receiver can still be read afterwards.  *)
(***************************************************************************)
NoValue == [T |-> "none", v |-> 0]
NoGet == [op |-> "none", key |-> <<>>, T |-> "none", res |-> NullPtr]

\* the call history with room for one more: the last call only
Recent(o) == IF o = <<>> THEN o ELSE <<o[Len(o)]>>

TrieInit ==
    /\ heap = <<>>
    /\ root_ = NULL
    /\ calls = 0
    /\ ops = <<>>
    /\ got = NoGet

TriePut(key, val) ==
    /\ calls < MaxOps
    /\ calls' = calls + 1
    /\ LET r == Put(heap, root_, key, val) IN
        /\ heap' = r.heap
        /\ root_' = r.root
    /\ ops' = Append(Recent(ops), [op |-> "Put", key |-> key, val |-> val,
                           src |-> root_, heap |-> heap])
    /\ got' = NoGet

TrieRemove(key) ==
    /\ calls < MaxOps
    /\ calls' = calls + 1
    /\ LET r == Remove(heap, root_, key) IN
        /\ heap' = r.heap
        /\ root_' = r.root
    /\ ops' = Append(Recent(ops), [op |-> "Remove", key |-> key, val |-> NoValue,
                           src |-> root_, heap |-> heap])
    /\ got' = NoGet

TrieGet(key, T) ==
    /\ \E res \in Get(heap, root_, key, T) :
          got' = [op |-> "Get", key |-> key, T |-> T, res |-> res]
    /\ UNCHANGED <<heap, root_, calls, ops>>

(***************************************************************************)
(* LRUKNode, and the memory the nodes live in                              *)
(***************************************************************************)
\* the frame ids a replacer of capacity NumFrames accepts
Frames == 0..(NumFrames - 1)

\* the frame ids the operations are called with: the valid ones, a negative
\* one and one at the capacity
FrameArgs == (0 - 1)..NumFrames

\* a frame has at most one node at a time: it is allocated at this address
Addr(fid) == fid + 1

\* memory that holds no node (never allocated, or deleted)
Freed ==
    [live |-> FALSE, k_ |-> 0, fid_ |-> 0, history_ |-> <<>>,
     is_evictable_ |-> FALSE, next_ |-> NULL, prev_ |-> NULL]

\* LRUKNode(k, fid, timestamp): one access recorded.  The constructor sets
\* k_, fid_ and history_; is_evictable_ (false) and the links (null) are the
\* member defaults of the class declaration: "nodes enter with this false".
LRUKNode(k, fid, timestamp) ==
    [live |-> TRUE, k_ |-> k, fid_ |-> fid, history_ |-> <<timestamp>>,
     is_evictable_ |-> FALSE, next_ |-> NULL, prev_ |-> NULL]

\* LRUKNode::DropLinks on the node at n
DropLinks(m, n) ==
    LET next == m[n].next_
        prev == m[n].prev_
        m1 == IF next # NULL THEN [m EXCEPT ![next].prev_ = prev] ELSE m
        m2 == IF prev # NULL THEN [m1 EXCEPT ![prev].next_ = next] ELSE m1
    IN  [m2 EXCEPT ![n].next_ = NULL, ![n].prev_ = NULL]

(***************************************************************************)
(* LRUKContainer.  S is the replacer's state: [mem, ctr, curr_size_,       *)
(* current_timestamp_]; c names a container, "young" or "old".             *)
(***************************************************************************)
\* LRUKContainer(other)
LRUKContainer(other) ==
    [head_ |-> NULL, tail_ |-> NULL, node_store_ |-> [f \in {} |-> NULL],
     other_ |-> other, relocate_when_need_ |-> other # "none"]

\* FindNode(fid)
FindNode(S, c, fid) ==
    IF fid \in DOMAIN S.ctr[c].node_store_ THEN S.ctr[c].node_store_[fid] ELSE NULL

\* node_store_.insert(make_pair(fid, node)): an existing entry is kept
StoreInsert(store, fid, n) ==
    IF fid \in DOMAIN store THEN store
    ELSE [f \in (DOMAIN store) \cup {fid} |-> IF f = fid THEN n ELSE store[f]]

\* node_store_.erase(fid)
StoreErase(store, fid) == [f \in (DOMAIN store) \ {fid} |-> store[f]]

\* AddNode(node)
RECURSIVE AddNode(_, _, _)
AddNode(S, c, n) ==
    LET C == S.ctr[c]
        node == S.mem[n]
    IN  IF node.k_ = Len(node.history_) /\ C.relocate_when_need_
        THEN AddNode(S, C.other_, n)
        ELSE LET store == StoreInsert(C.node_store_, node.fid_, n) IN
             IF C.head_ = NULL
             THEN [S EXCEPT !.ctr[c].node_store_ = store,
                            !.ctr[c].head_ = n, !.ctr[c].tail_ = n]
             ELSE LET m1 == [S.mem EXCEPT ![n].prev_ = C.tail_]
                      m2 == [m1 EXCEPT ![C.tail_].next_ = n]
                  IN  [S EXCEPT !.mem = m2, !.ctr[c].node_store_ = store,
                                !.ctr[c].tail_ = m2[C.tail_].next_]

\* RemoveNode(node, free) that leaves tail_ alone
RemoveNodeKeepTail(S, c, n, free) ==
    LET C == S.ctr[c]
        next == S.mem[n].next_
        m1 == DropLinks(S.mem, n)
    IN  [S EXCEPT !.mem = IF free THEN [m1 EXCEPT ![n] = Freed] ELSE m1,
                  !.ctr[c].head_ = IF C.head_ = n THEN next ELSE C.head_,
                  !.ctr[c].node_store_ = StoreErase(C.node_store_, S.mem[n].fid_)]

\* RemoveNode(node, free)
RemoveNode(S, c, n, free) ==
    LET C == S.ctr[c]
        next == S.mem[n].next_
        prev == S.mem[n].prev_
        m1 == DropLinks(S.mem, n)
    IN  [S EXCEPT !.mem = IF free THEN [m1 EXCEPT ![n] = Freed] ELSE m1,
                  !.ctr[c].head_ = IF C.head_ = n THEN next ELSE C.head_,
                  !.ctr[c].tail_ = IF C.tail_ = n THEN prev ELSE C.tail_,
                  !.ctr[c].node_store_ = StoreErase(C.node_store_, S.mem[n].fid_)]

\* the end of UpdateNode leaving the node where it is
MoveToTailStay(S, c, n) == S

\* the end of UpdateNode: the node unlinked and linked again behind tail_
MoveToTail(S, c, n) ==
    LET C == S.ctr[c]
        next == S.mem[n].next_
        m1 == DropLinks(S.mem, n)
        m2 == [m1 EXCEPT ![C.tail_].next_ = n]
    IN  [S EXCEPT !.mem = [m2 EXCEPT ![n].prev_ = C.tail_],
                  !.ctr[c].head_ = IF C.head_ = n THEN next ELSE C.head_,
                  !.ctr[c].tail_ = n]

\* history_ after an access: the oldest of k entries dropped, the timestamp in front
PushHistory(node, timestamp) ==
    LET h == node.history_ IN
    <<timestamp>> \o (IF Len(h) = node.k_ THEN SubSeq(h, 1, Len(h) - 1) ELSE h)

RECURSIVE UpdateNode(_, _, _, _)

\* UpdateNode(node, timestamp) that relocates one access late, testing
\* k_ <= history_.size()
UpdateNodeLate(S, c, n, timestamp) ==
    LET C == S.ctr[c]
        node == S.mem[n]
    IN  IF node.k_ <= Len(node.history_) /\ C.relocate_when_need_
        THEN UpdateNode(RemoveNode(S, c, n, FALSE), C.other_, n, timestamp)
        ELSE LET S1 == [S EXCEPT !.mem[n].history_ = PushHistory(node, timestamp)]
                 S2 == IF node.fid_ \notin DOMAIN S1.ctr[c].node_store_
                       THEN AddNode(S1, c, n) ELSE S1
             IN  IF S2.ctr[c].tail_ = n THEN S2 ELSE MoveToTail(S2, c, n)

\* UpdateNode(node, timestamp)
UpdateNode(S, c, n, timestamp) ==
    LET C == S.ctr[c]
        node == S.mem[n]
    IN  IF node.k_ <= Len(node.history_) + 1 /\ C.relocate_when_need_
        THEN UpdateNode(RemoveNode(S, c, n, FALSE), C.other_, n, timestamp)
        ELSE LET S1 == [S EXCEPT !.mem[n].history_ = PushHistory(node, timestamp)]
                 S2 == IF node.fid_ \notin DOMAIN S1.ctr[c].node_store_
                       THEN AddNode(S1, c, n) ELSE S1
             IN  IF S2.ctr[c].tail_ = n THEN S2 ELSE MoveToTail(S2, c, n)

RECURSIVE EvictScan(_, _, _)

\* LRUKContainer::Evict taking the node at cur whether or not it may be evicted
EvictScanAny(S, c, cur) ==
    IF cur = NULL THEN [ok |-> FALSE, fid |-> 0 - 1, S |-> S]
    ELSE [ok |-> TRUE, fid |-> S.mem[cur].fid_, S |-> RemoveNode(S, c, cur, TRUE)]

\* the loop of LRUKContainer::Evict from cur on
EvictScan(S, c, cur) ==
    IF cur = NULL THEN [ok |-> FALSE, fid |-> 0 - 1, S |-> S]
    ELSE IF S.mem[cur].is_evictable_
    THEN [ok |-> TRUE, fid |-> S.mem[cur].fid_, S |-> RemoveNode(S, c, cur, TRUE)]
    ELSE EvictScan(S, c, S.mem[cur].next_)

\* LRUKContainer::Evict(fid): fid |-> -1 stands for an out-parameter not written
ContainerEvict(S, c) == EvictScan(S, c, S.ctr[c].head_)

(***************************************************************************)
(* LRUKReplacer                                                            *)
(***************************************************************************)
\* the replacer's state, as the operations below take and return it
State ==
    [mem |-> mem, ctr |-> ctr, curr_size_ |-> curr_size_,
     current_timestamp_ |-> current_timestamp_]

\* the bounds test of RecordAccess, SetEvictable and Remove: a negative frame
\* id converts to a size_t above every capacity
OutOfRange(fid) == fid < 0 \/ fid >= NumFrames

\* RecordAccess(frame_id) that also clears is_evictable_ of the frame it finds
RecordAccessLockedPins(S, k, fid, timestamp) ==
    LET S0 == [S EXCEPT !.current_timestamp_ = timestamp]
        young == FindNode(S0, "young", fid)
        old == FindNode(S0, "old", fid)
    IN  IF young # NULL
        THEN UpdateNode([S0 EXCEPT !.mem[young].is_evictable_ = FALSE], "young", young, timestamp)
        ELSE IF old # NULL
        THEN UpdateNode([S0 EXCEPT !.mem[old].is_evictable_ = FALSE], "old", old, timestamp)
        ELSE AddNode([S0 EXCEPT !.mem[Addr(fid)] = LRUKNode(k, fid, timestamp)],
                     "young", Addr(fid))

\* RecordAccess(frame_id) under the latch, with the timestamp read before it
RecordAccessLocked(S, k, fid, timestamp) ==
    LET S0 == [S EXCEPT !.current_timestamp_ = timestamp]
        young == FindNode(S0, "young", fid)
        old == FindNode(S0, "old", fid)
    IN  IF young # NULL THEN UpdateNode(S0, "young", young, timestamp)
        ELSE IF old # NULL THEN UpdateNode(S0, "old", old, timestamp)
        ELSE AddNode([S0 EXCEPT !.mem[Addr(fid)] = LRUKNode(k, fid, timestamp)],
                     "young", Addr(fid))

\* Evict that forgets --curr_size_
ReplacerEvictNoCount(S) ==
    LET y == ContainerEvict(S, "young")
        o == ContainerEvict(S, "old")
    IN  IF y.ok THEN [ok |-> TRUE, fid |-> y.fid, S |-> y.S]
        ELSE IF o.ok THEN [ok |-> TRUE, fid |-> o.fid, S |-> o.S]
        ELSE [ok |-> FALSE, fid |-> o.fid, S |-> S]

\* Evict that asks the old container first
ReplacerEvictOldFirst(S) ==
    LET y == ContainerEvict(S, "young")
        o == ContainerEvict(S, "old")
    IN  IF o.ok THEN [ok |-> TRUE, fid |-> o.fid, S |-> [o.S EXCEPT !.curr_size_ = @ - 1]]
        ELSE IF y.ok THEN [ok |-> TRUE, fid |-> y.fid, S |-> [y.S EXCEPT !.curr_size_ = @ - 1]]
        ELSE [ok |-> FALSE, fid |-> y.fid, S |-> S]

\* Evict(frame_id): the young container first, then the old one
ReplacerEvict(S) ==
    LET y == ContainerEvict(S, "young")
        o == ContainerEvict(S, "old")
    IN  IF y.ok THEN [ok |-> TRUE, fid |-> y.fid, S |-> [y.S EXCEPT !.curr_size_ = @ - 1]]
        ELSE IF o.ok THEN [ok |-> TRUE, fid |-> o.fid, S |-> [o.S EXCEPT !.curr_size_ = @ - 1]]
        ELSE [ok |-> FALSE, fid |-> o.fid, S |-> S]

\* SetEvictable(frame_id, set_evictable), past the bounds test
ReplacerSetEvictable(S, fid, set_evictable) ==
    LET young == FindNode(S, "young", fid)
        n == IF young = NULL THEN FindNode(S, "old", fid) ELSE young
    IN  IF n = NULL \/ S.mem[n].is_evictable_ = set_evictable THEN S
        ELSE IF S.mem[n].is_evictable_ /\ ~set_evictable
        THEN [S EXCEPT !.mem[n].is_evictable_ = set_evictable, !.curr_size_ = @ - 1]
        ELSE [S EXCEPT !.mem[n].is_evictable_ = set_evictable, !.curr_size_ = @ + 1]

\* Remove(frame_id) that decrements curr_size_ before it tests is_evictable_
ReplacerRemoveCountFirst(S, fid) ==
    LET young == FindNode(S, "young", fid)
        old == FindNode(S, "old", fid)
        S1 == [S EXCEPT !.curr_size_ = @ - 1]
    IN  IF young # NULL
        THEN IF ~S.mem[young].is_evictable_ THEN [thrown |-> TRUE, S |-> S1]
             ELSE [thrown |-> FALSE, S |-> RemoveNode(S1, "young", young, TRUE)]
        ELSE IF old # NULL
        THEN IF ~S.mem[old].is_evictable_ THEN [thrown |-> TRUE, S |-> S1]
             ELSE [thrown |-> FALSE, S |-> RemoveNode(S1, "old", old, TRUE)]
        ELSE [thrown |-> FALSE, S |-> S]

\* Remove(frame_id), past the bounds test
ReplacerRemove(S, fid) ==
    LET young == FindNode(S, "young", fid)
        old == FindNode(S, "old", fid)
    IN  IF young # NULL
        THEN IF ~S.mem[young].is_evictable_ THEN [thrown |-> TRUE, S |-> S]
             ELSE [thrown |-> FALSE,
                   S |-> RemoveNode([S EXCEPT !.curr_size_ = @ - 1], "young", young, TRUE)]
        ELSE IF old # NULL
        THEN IF ~S.mem[old].is_evictable_ THEN [thrown |-> TRUE, S |-> S]
             ELSE [thrown |-> FALSE,
                   S |-> RemoveNode([S EXCEPT !.curr_size_ = @ - 1], "old", old, TRUE)]
        ELSE [thrown |-> FALSE, S |-> S]

(***************************************************************************)
(* The replacer as a state machine.  A call made by the only thread is one *)
(* step; with several threads RecordAccess is two steps, before latch_ and *)
(* under it.  lruLast keeps the last call and the state it was made in.    *)
(***************************************************************************)
Becomes(S) ==
    /\ mem' = S.mem
    /\ ctr' = S.ctr
    /\ curr_size_' = S.curr_size_
    /\ current_timestamp_' = S.current_timestamp_

Call(op, fid, set, thrown, ok, ret) ==
    [op |-> op, fid |-> fid, set |-> set, thrown |-> thrown, ok |-> ok, ret |-> ret,
     pre |-> State]

\* the threads
Threads == 1..NumThreads

\* a thread that is not inside RecordAccess
Idle == [busy |-> FALSE, fid |-> 0, timestamp |-> 0]

\* LRUKReplacer(num_frames, k)
ReplacerInit(k) ==
    /\ k_ = k
    /\ mem = [n \in 1..NumFrames |-> Freed]
    /\ ctr = [young |-> LRUKContainer("old"), old |-> LRUKContainer("none")]
    /\ curr_size_ = 0
    /\ current_timestamp_ = 0
    /\ clock = 0
    /\ lruLast = [op |-> "new", fid |-> 0, set |-> FALSE, thrown |-> FALSE,
                  ok |-> FALSE, ret |-> 0,
                  pre |-> [mem |-> mem, ctr |-> ctr, curr_size_ |-> 0,
                           current_timestamp_ |-> 0]]
    /\ pending = [t \in Threads |-> Idle]

\* the wall clock moves on
Tick ==
    /\ clock < MaxTime
    /\ clock' = clock + 1
    /\ UNCHANGED <<k_, mem, ctr, curr_size_, current_timestamp_, lruLast>>

RecordAccess(fid) ==
    /\ IF OutOfRange(fid)
       THEN /\ UNCHANGED <<mem, ctr, curr_size_, current_timestamp_>>
            /\ lruLast' = Call("RecordAccess", fid, FALSE, TRUE, FALSE, 0)
       ELSE /\ Becomes(RecordAccessLocked(State, k_, fid, clock))
            /\ lruLast' = Call("RecordAccess", fid, FALSE, FALSE, TRUE, 0)
    /\ UNCHANGED <<k_, clock>>

Evict ==
    /\ LET r == ReplacerEvict(State) IN
        /\ Becomes(r.S)
        /\ lruLast' = Call("Evict", r.fid, FALSE, FALSE, r.ok, r.fid)
    /\ UNCHANGED <<k_, clock>>

\* SetEvictable(frame_id, set_evictable) without the bounds test
SetEvictableUnchecked(fid, set_evictable) ==
    /\ Becomes(ReplacerSetEvictable(State, fid, set_evictable))
    /\ lruLast' = Call("SetEvictable", fid, set_evictable, FALSE, TRUE, 0)
    /\ UNCHANGED <<k_, clock>>

SetEvictable(fid, set_evictable) ==
    /\ IF OutOfRange(fid)
       THEN /\ UNCHANGED <<mem, ctr, curr_size_, current_timestamp_>>
            /\ lruLast' = Call("SetEvictable", fid, set_evictable, TRUE, FALSE, 0)
       ELSE /\ Becomes(ReplacerSetEvictable(State, fid, set_evictable))
            /\ lruLast' = Call("SetEvictable", fid, set_evictable, FALSE, TRUE, 0)
    /\ UNCHANGED <<k_, clock>>

ReplacerRemoveCall(fid) ==
    /\ IF OutOfRange(fid)
       THEN /\ UNCHANGED <<mem, ctr, curr_size_, current_timestamp_>>
            /\ lruLast' = Call("Remove", fid, FALSE, TRUE, FALSE, 0)
       ELSE LET r == ReplacerRemove(State, fid) IN
            /\ Becomes(r.S)
            /\ lruLast' = Call("Remove", fid, FALSE, r.thrown, ~r.thrown, 0)
    /\ UNCHANGED <<k_, clock>>

Size ==
    /\ lruLast' = Call("Size", 0, FALSE, FALSE, TRUE, curr_size_)
    /\ UNCHANGED <<k_, mem, ctr, curr_size_, current_timestamp_, clock>>

\* RecordAccess(frame_id) in thread t up to latch_: the bounds test, then
\* time(&timestamp)
RecordAccessStart(t, fid) ==
    /\ ~pending[t].busy
    /\ IF OutOfRange(fid)
       THEN /\ lruLast' = Call("RecordAccess", fid, FALSE, TRUE, FALSE, 0)
            /\ UNCHANGED pending
       ELSE /\ pending' = [pending EXCEPT ![t] = [busy |-> TRUE, fid |-> fid,
                                                  timestamp |-> clock]]
            /\ UNCHANGED lruLast
    /\ UNCHANGED <<k_, mem, ctr, curr_size_, current_timestamp_, clock>>

\* RecordAccess(frame_id) in thread t from latch_ on, with the timestamp it
\* read before
RecordAccessLatched(t) ==
    /\ pending[t].busy
    /\ Becomes(RecordAccessLocked(State, k_, pending[t].fid, pending[t].timestamp))
    /\ lruLast' = Call("RecordAccess", pending[t].fid, FALSE, FALSE, TRUE, 0)
    /\ pending' = [pending EXCEPT ![t] = Idle]
    /\ UNCHANGED <<k_, clock>>

(***************************************************************************)
(* The specifications                                                      *)
(***************************************************************************)
TrieNext ==
    \/ \E key \in Keys, val \in Values : TriePut(key, val) /\ UNCHANGED lruVars
    \/ \E key \in Keys : TrieRemove(key) /\ UNCHANGED lruVars
    \/ \E key \in Keys, T \in Types : TrieGet(key, T) /\ UNCHANGED lruVars

\* the trie alone, next to a replacer nobody calls
InitTrie == TrieInit /\ ReplacerInit(1)

SpecTrie == InitTrie /\ [][TrieNext]_vars

\* one thread: every call runs from its first line to its last
LRUNext ==
    \/ Tick /\ UNCHANGED <<trieVars, pending>>
    \/ \E fid \in FrameArgs : RecordAccess(fid) /\ UNCHANGED <<trieVars, pending>>
    \/ Evict /\ UNCHANGED <<trieVars, pending>>
    \/ \E fid \in FrameArgs, b \in BOOLEAN :
        SetEvictable(fid, b) /\ UNCHANGED <<trieVars, pending>>
    \/ \E fid \in FrameArgs : ReplacerRemoveCall(fid) /\ UNCHANGED <<trieVars, pending>>
    \/ Size /\ UNCHANGED <<trieVars, pending>>

\* the replacer alone, constructed with some K, next to a trie nobody calls
InitLRU == TrieInit /\ \E k \in 1..MaxK : ReplacerInit(k)

SpecLRU == InitLRU /\ [][LRUNext]_vars

\* several threads calling RecordAccess: the part of a call before latch_
\* interleaves with the other threads, the part under latch_ is one step
LRUConcNext ==
    \/ Tick /\ UNCHANGED <<trieVars, pending>>
    \/ \E t \in Threads, fid \in FrameArgs :
        RecordAccessStart(t, fid) /\ UNCHANGED trieVars
    \/ \E t \in Threads : RecordAccessLatched(t) /\ UNCHANGED trieVars

InitLRUConc == TrieInit /\ \E k \in 1..MaxK : ReplacerInit(k)

SpecLRUConc == InitLRUConc /\ [][LRUConcNext]_vars

(***************************************************************************)
(* What a trie holds, read off its nodes                                   *)
(***************************************************************************)
\* every byte string as long as a key of Keys
AllKeys == UNION {[1..n -> Chars] : n \in {Len(k) : k \in Keys}}

\* the typed value at key in the trie rooted at n, NoValue if key is not mapped
RECURSIVE Lookup(_, _, _)
Lookup(h, n, key) ==
    IF n = NULL THEN NoValue
    ELSE IF key = <<>>
    THEN IF h[n].is_value_node_ THEN [T |-> h[n].T, v |-> h[n].value_] ELSE NoValue
    ELSE IF Head(key) \notin DOMAIN h[n].children THEN NoValue
    ELSE Lookup(h, h[n].children[Head(key)], Tail(key))

\* the key/value set of the trie rooted at root
KV(h, root) == {<<k, Lookup(h, root, k)>> : k \in {x \in AllKeys : Lookup(h, root, x) # NoValue}}

\* the nodes reachable from n
RECURSIVE Reach(_, _)
Reach(h, n) ==
    IF n = NULL THEN {}
    ELSE {n} \cup UNION {Reach(h, h[n].children[c]) : c \in DOMAIN h[n].children}

\* the last Put/Remove, and the one before it
HasLast == Len(ops) >= 1
Last == ops[Len(ops)]
HasPrev == Len(ops) >= 2
Prev == ops[Len(ops) - 1]

(***************************************************************************)
(* Properties of the trie                                                  *)
(***************************************************************************)
\* C1: Get-after-Put.  A Get<T>(k) on the trie returned by Put(k, v: T)
\* returns v, whatever the receiver was (empty or not) and whatever k was
\* mapped to before.
GetAfterPut ==
    (HasLast /\ Last.op = "Put" /\ got.op = "Get"
        /\ got.key = Last.key /\ got.T = Last.val.T)
    => got.res = Pointer(Last.val.T, Last.val.v)

\* a Put that replaced a different value of the same key, then read back
GetAfterPutWitness ==
    /\ HasLast /\ Last.op = "Put" /\ got.op = "Get"
    /\ got.key = Last.key /\ got.T = Last.val.T
    /\ Lookup(Last.heap, Last.src, Last.key) \notin {NoValue, Last.val}
    /\ got.res = Pointer(Last.val.T, Last.val.v)

\* C2: Persistence.  After a Put or a Remove every node that existed before
\* the call is what it was, so the receiver reads as before: each Get on it
\* has the results it had.
Persistence ==
    HasLast =>
        /\ \A n \in 1..Len(Last.heap) : heap[n] = Last.heap[n]
        /\ \A k \in Keys, T \in Types :
              Get(heap, Last.src, k, T) = Get(Last.heap, Last.src, k, T)

\* a Put along an existing two-byte path, and a Remove of a mapped key
PersistenceWitness ==
    /\ HasPrev
    /\ Prev.op = "Put" /\ Len(Prev.key) = 2
    /\ Prev.src # NULL /\ Prev.key[1] \in DOMAIN Prev.heap[Prev.src].children
    /\ Last.op = "Remove" /\ Lookup(Last.heap, Last.src, Last.key) # NoValue
    /\ root_ # Last.src

\* C3: No plain leaves.  No node reachable from the root is both plain and
\* childless.
NoPlainLeaves ==
    \A n \in Reach(heap, root_) :
        heap[n].is_value_node_ \/ DOMAIN heap[n].children # {}

\* C4: Get is total.  A Get of a key that is not mapped returns null.
GetTotal ==
    (got.op = "Get" /\ Lookup(heap, root_, got.key) = NoValue) => got.res = NullPtr

\* C5: Remove undoes Put.  When k is not mapped in t, t.Put(k, v).Remove(k)
\* has the key/value set of t, and a Get of k on it returns null.
RemoveUndoesPut ==
    (HasPrev /\ Prev.op = "Put" /\ Last.op = "Remove" /\ Last.key = Prev.key
        /\ Lookup(Prev.heap, Prev.src, Prev.key) = NoValue)
    => /\ KV(heap, root_) = KV(Prev.heap, Prev.src)
       /\ (got.op = "Get" /\ got.key = Last.key) => got.res = NullPtr

\* Put then Remove of a key that has a mapped extension in t, then a Get of it
RemoveUndoesPutWitness ==
    /\ HasPrev /\ Prev.op = "Put" /\ Last.op = "Remove" /\ Last.key = Prev.key
    /\ Lookup(Prev.heap, Prev.src, Prev.key) = NoValue
    /\ \E k \in Keys : Len(k) > Len(Prev.key) /\ Lookup(Prev.heap, Prev.src, k) # NoValue
    /\ got.op = "Get" /\ got.key = Last.key /\ got.res = NullPtr

\* C6: Type discrimination.  When k holds a value stored with type U, a
\* Get<V>(k) returns null for V # U, and the value for V = U.
TypeDiscrimination ==
    (got.op = "Get" /\ Lookup(heap, root_, got.key) # NoValue)
    => LET stored == Lookup(heap, root_, got.key) IN
       got.res = IF got.T = stored.T THEN Pointer(stored.T, stored.v) ELSE NullPtr

\* a Get<V> of a key that was just Put with a value of another type U
TypeDiscriminationWitness ==
    /\ HasLast /\ Last.op = "Put"
    /\ got.op = "Get" /\ got.key = Last.key /\ got.T # Last.val.T
    /\ got.res = NullPtr

\* C7: Put(k, v) and Remove(k) change only k.  Every other key reads on the
\* returned trie as it reads on the receiver, and a Remove of a key that is
\* not mapped returns a trie with the receiver's key/value set.
OnlyKeyChanged ==
    HasLast =>
        /\ \A k \in Keys \ {Last.key}, T \in Types :
              Get(heap, root_, k, T) = Get(Last.heap, Last.src, k, T)
        /\ (Last.op = "Remove" /\ Lookup(Last.heap, Last.src, Last.key) = NoValue)
              => KV(heap, root_) = KV(Last.heap, Last.src)

\* C7 on a receiver with a root: there the frame holds, so that C7 fails only
\* where Get on the receiver dereferences the null root (C4)
OnlyKeyChangedWithRoot ==
    (HasLast /\ Last.src # NULL) =>
        /\ \A k \in Keys \ {Last.key}, T \in Types :
              Get(heap, root_, k, T) = Get(Last.heap, Last.src, k, T)
        /\ (Last.op = "Remove" /\ Lookup(Last.heap, Last.src, Last.key) = NoValue)
              => KV(heap, root_) = KV(Last.heap, Last.src)

(***************************************************************************)
(* What a replacer tracks, read off its containers                         *)
(***************************************************************************)
\* the frames indexed by container c
InContainer(S, c) == DOMAIN S.ctr[c].node_store_

\* the tracked frames
Tracked(S) == InContainer(S, "young") \cup InContainer(S, "old")

\* the node of a tracked frame
NodeOf(S, f) ==
    IF f \in InContainer(S, "young")
    THEN S.mem[S.ctr["young"].node_store_[f]]
    ELSE S.mem[S.ctr["old"].node_store_[f]]

\* the frames of container c whose is_evictable_ flag is set
EvictableIn(S, c) == {f \in InContainer(S, c) : S.mem[S.ctr[c].node_store_[f]].is_evictable_}

\* young: tracked with fewer than K recorded accesses; old: with K
YoungFrames(S) == {f \in Tracked(S) : Len(NodeOf(S, f).history_) < k_}
OldFrames(S) == {f \in Tracked(S) : Len(NodeOf(S, f).history_) >= k_}
EvictableFrames(S) == {f \in Tracked(S) : NodeOf(S, f).is_evictable_}

\* the timestamp of the K-th most recent access of an old frame
KthAccess(S, f) == NodeOf(S, f).history_[k_]

(***************************************************************************)
(* Properties of the replacer                                              *)
(***************************************************************************)
\* C8: Size.  After every call, failed ones included, curr_size_ (which
\* Size() returns) is the number of nodes with is_evictable_ set, counted
\* over the young and the old container.
SizeCountsEvictable ==
    /\ curr_size_ = Cardinality(EvictableIn(State, "young"))
                    + Cardinality(EvictableIn(State, "old"))
    /\ lruLast.op = "Size" =>
          lruLast.ret = Cardinality(EvictableIn(State, "young"))
                        + Cardinality(EvictableIn(State, "old"))

\* Size() returning 2 with an evictable frame in each container and a pinned one
SizeCountsEvictableWitness ==
    /\ lruLast.op = "Size" /\ lruLast.ret = 2
    /\ EvictableIn(State, "young") # {} /\ EvictableIn(State, "old") # {}
    /\ Tracked(State) # EvictableFrames(State)

\* C9: Young before old.  When some young frame is evictable Evict returns
\* a young frame; it returns an old frame only when no young one is evictable.
YoungBeforeOld ==
    lruLast.op = "Evict" =>
        LET pre == lruLast.pre
            youngEvictable == YoungFrames(pre) \cap EvictableFrames(pre)
        IN  /\ youngEvictable # {} => (lruLast.ok /\ lruLast.ret \in youngEvictable)
            /\ (lruLast.ok /\ lruLast.ret \in OldFrames(pre)) => youngEvictable = {}

\* an Evict with evictable frames of both kinds, the old one touched first
YoungBeforeOldWitness ==
    /\ lruLast.op = "Evict" /\ lruLast.ok
    /\ lruLast.ret \in YoungFrames(lruLast.pre)
    /\ \E g \in OldFrames(lruLast.pre) \cap EvictableFrames(lruLast.pre) :
          NodeOf(lruLast.pre, g).history_[1] < NodeOf(lruLast.pre, lruLast.ret).history_[1]

\* C10: LRU-K ranking.  When no young frame is evictable, Evict returns the
\* evictable old frame whose K-th most recent access is the earliest.
EvictsEarliestKthAccess ==
    LET pre == lruLast.pre
        oldEvictable == OldFrames(pre) \cap EvictableFrames(pre)
    IN  (lruLast.op = "Evict" /\ YoungFrames(pre) \cap EvictableFrames(pre) = {}
            /\ oldEvictable # {})
        => /\ lruLast.ok
           /\ lruLast.ret \in oldEvictable
           /\ \A g \in oldEvictable : KthAccess(pre, lruLast.ret) <= KthAccess(pre, g)

\* C11: Evict.  Evict returns true exactly when some tracked frame was
\* evictable before the call; the frame it returns was evictable and is
\* the only frame that stops being tracked, so every pinned frame stays
\* tracked with its node untouched; when no tracked frame was evictable
\* (the replacer empty or all pinned) it returns false and the whole
\* replacer state, Size included, is what it was.
EvictOnlyEvictable ==
    lruLast.op = "Evict" =>
        LET pre == lruLast.pre IN
        /\ lruLast.ok <=> EvictableFrames(pre) # {}
        /\ lruLast.ok =>
            /\ lruLast.ret \in EvictableFrames(pre)
            /\ Tracked(State) = Tracked(pre) \ {lruLast.ret}
            /\ curr_size_ = pre.curr_size_ - 1
        /\ \A f \in Tracked(pre) \ EvictableFrames(pre) :
            /\ f \in Tracked(State)
            /\ ~NodeOf(State, f).is_evictable_
            /\ NodeOf(State, f).history_ = NodeOf(pre, f).history_
        /\ ~lruLast.ok => State = pre

\* an eviction that walked past a pinned frame at the head of the young
\* list to take the evictable frame behind it
EvictOnlyEvictableWitness ==
    /\ lruLast.op = "Evict"
    /\ lruLast.ok
    /\ LET pre == lruLast.pre
           h == pre.ctr["young"].head_ IN
        /\ h # NULL
        /\ ~pre.mem[h].is_evictable_
        /\ lruLast.ret \in InContainer(pre, "young")
        /\ pre.mem[h].fid_ \in Tracked(State)

\* C12: Remove.  Remove(f) with f in range: on a tracked frame that is not
\* evictable it fails with an error and the replacer state (containers,
\* flags, histories, Size) is what it was; on an untracked frame it does
\* nothing and reports no error; on a tracked evictable frame it untracks
\* f alone, frees its node and takes one off Size.
RemoveOnlyEvictable ==
    (lruLast.op = "Remove" /\ lruLast.fid \in Frames) =>
        LET pre == lruLast.pre
            f == lruLast.fid IN
        /\ (f \in Tracked(pre) /\ f \notin EvictableFrames(pre)) =>
            /\ lruLast.thrown
            /\ State = pre
        /\ f \notin Tracked(pre) =>
            /\ ~lruLast.thrown
            /\ State = pre
        /\ f \in EvictableFrames(pre) =>
            /\ ~lruLast.thrown
            /\ Tracked(State) = Tracked(pre) \ {f}
            /\ curr_size_ = pre.curr_size_ - 1
            /\ mem[Addr(f)] = Freed
            /\ \A g \in Tracked(State) :
                /\ NodeOf(State, g).is_evictable_ = NodeOf(pre, g).is_evictable_
                /\ NodeOf(State, g).history_ = NodeOf(pre, g).history_

\* a Remove refused on a pinned frame while another frame is evictable
RemoveOnlyEvictableWitness ==
    /\ lruLast.op = "Remove"
    /\ lruLast.fid \in Tracked(lruLast.pre)
    /\ lruLast.fid \notin EvictableFrames(lruLast.pre)
    /\ lruLast.thrown
    /\ curr_size_ >= 1
    /\ lruLast.fid \in Tracked(State)

\* C13: frame ids out of range.  RecordAccess, SetEvictable and Remove
\* called with a frame id that is negative or at or above the capacity
\* fail with an error, and the replacer state is exactly the state before
\* the call.
OutOfRangeRejected ==
    (/\ lruLast.op \in {"RecordAccess", "SetEvictable", "Remove"}
     /\ (lruLast.fid < 0 \/ lruLast.fid >= NumFrames)) =>
        /\ lruLast.thrown
        /\ ~lruLast.ok
        /\ State = lruLast.pre

\* a negative frame id refused by SetEvictable on a replacer that tracks
\* an evictable frame
OutOfRangeRejectedWitness ==
    /\ lruLast.op = "SetEvictable"
    /\ lruLast.fid < 0
    /\ lruLast.set
    /\ lruLast.thrown
    /\ EvictableFrames(State) # {}
    /\ curr_size_ = lruLast.pre.curr_size_

\* the number of timestamps container c keeps for its frame f
HistoryLen(S, c, f) == Len(S.mem[S.ctr[c].node_store_[f]].history_)

\* C15: young and old.  In every reachable state, for every K: no frame
\* is in both containers, the young container holds exactly the tracked
\* frames with fewer than K recorded accesses and the old container those
\* with K.  A RecordAccess adds one access: a frame seen for the first time
\* has one, a young frame moves to old exactly when the access is its K-th,
\* and an old frame stays in old.
YoungOldPartition ==
    /\ InContainer(State, "young") \cap InContainer(State, "old") = {}
    /\ \A f \in InContainer(State, "young") :
        HistoryLen(State, "young", f) >= 1 /\ HistoryLen(State, "young", f) < k_
    /\ \A f \in InContainer(State, "old") : HistoryLen(State, "old", f) = k_
    /\ (lruLast.op = "RecordAccess" /\ ~lruLast.thrown) =>
        LET pre == lruLast.pre
            f == lruLast.fid
            before == IF f \in InContainer(pre, "young") THEN HistoryLen(pre, "young", f)
                      ELSE IF f \in InContainer(pre, "old") THEN k_
                      ELSE 0
        IN  /\ f \in Tracked(State)
            /\ f \in InContainer(pre, "old") => f \in InContainer(State, "old")
            /\ f \in InContainer(State, "old") <=> before + 1 >= k_
            /\ f \in InContainer(State, "young") => HistoryLen(State, "young", f) = before + 1
            /\ \A c \in {"young", "old"} :
                InContainer(State, c) \ {f} = InContainer(pre, c) \ {f}

\* with K = 2, the second access of a young frame has moved it to the old
\* container while another frame is still young
YoungOldPartitionWitness ==
    /\ k_ = 2
    /\ lruLast.op = "RecordAccess"
    /\ ~lruLast.thrown
    /\ lruLast.fid \in InContainer(lruLast.pre, "young")
    /\ lruLast.fid \in InContainer(State, "old")
    /\ InContainer(State, "young") # {}

\* the frames of a list from node cur on, following next_
RECURSIVE ListFrom(_, _, _)
ListFrom(S, cur, fuel) ==
    IF cur = NULL \/ fuel = 0 THEN <<>>
    ELSE <<S.mem[cur].fid_>> \o ListFrom(S, S.mem[cur].next_, fuel - 1)

\* the frames of container c from head to tail
ListOf(S, c) == ListFrom(S, S.ctr[c].head_, NumFrames + 1)

\* a list of frames with frame f left out
Without(list, f) == SelectSeq(list, LAMBDA g : g # f)

\* C16: list order.  Every successful RecordAccess leaves its frame at the
\* tail of the container it ends up in, also when the access promotes it
\* from young to old, and the order of all other frames in both lists is
\* what it was.  Evict returns, of the container it takes from, the
\* evictable frame closest to the head.
OrderedByLastTouch ==
    /\ (lruLast.op = "RecordAccess" /\ ~lruLast.thrown) =>
        LET pre == lruLast.pre
            f == lruLast.fid IN
        /\ \E c \in {"young", "old"} :
            /\ f \in InContainer(State, c)
            /\ ListOf(State, c) # <<>>
            /\ ListOf(State, c)[Len(ListOf(State, c))] = f
            /\ mem[ctr[c].tail_].fid_ = f
        /\ \A c \in {"young", "old"} :
            Without(ListOf(State, c), f) = Without(ListOf(pre, c), f)
    /\ (lruLast.op = "Evict" /\ lruLast.ok) =>
        LET pre == lruLast.pre IN
        \E c \in {"young", "old"} :
            LET list == ListOf(pre, c) IN
            \E i \in 1..Len(list) :
                /\ list[i] = lruLast.ret
                /\ list[i] \in EvictableIn(pre, c)
                /\ \A j \in 1..(i - 1) : list[j] \notin EvictableIn(pre, c)
                /\ ListOf(State, c) = Without(list, lruLast.ret)

\* an access to the frame at the head of an old list of three frames has
\* moved it behind the other two
OrderedByLastTouchWitness ==
    /\ lruLast.op = "RecordAccess"
    /\ ~lruLast.thrown
    /\ Len(ListOf(lruLast.pre, "old")) = 3
    /\ ListOf(lruLast.pre, "old")[1] = lruLast.fid
    /\ ListOf(State, "old")[3] = lruLast.fid
    /\ ListOf(State, "old")[1] = ListOf(lruLast.pre, "old")[2]

\* the addresses of the nodes of a list from cur on, following next_
RECURSIVE NodesFrom(_, _, _)
NodesFrom(S, cur, fuel) ==
    IF cur = NULL \/ fuel = 0 THEN <<>>
    ELSE <<cur>> \o NodesFrom(S, S.mem[cur].next_, fuel - 1)

\* the addresses of the nodes of container c from head to tail
NodesOf(S, c) == NodesFrom(S, S.ctr[c].head_, NumFrames + 1)

\* the addresses container c indexes
Indexed(S, c) == {S.ctr[c].node_store_[f] : f \in InContainer(S, c)}

\* list and index of container c agree
WellLinked(S, c) ==
    LET C == S.ctr[c]
        nodes == NodesOf(S, c)
    IN  /\ {nodes[i] : i \in 1..Len(nodes)} = Indexed(S, c)
        /\ Len(nodes) = Cardinality(InContainer(S, c))
        /\ \A f \in InContainer(S, c) :
            S.mem[C.node_store_[f]].live /\ S.mem[C.node_store_[f]].fid_ = f
        /\ C.head_ = NULL <=> InContainer(S, c) = {}
        /\ C.tail_ = NULL <=> InContainer(S, c) = {}
        /\ C.head_ # NULL => S.mem[C.head_].prev_ = NULL
        /\ C.tail_ # NULL =>
            /\ S.mem[C.tail_].next_ = NULL
            /\ nodes # <<>>
            /\ nodes[Len(nodes)] = C.tail_
        /\ \A i \in 1..Len(nodes) :
            LET node == S.mem[nodes[i]] IN
            /\ node.next_ # NULL => S.mem[node.next_].prev_ = nodes[i]
            /\ node.prev_ # NULL => S.mem[node.prev_].next_ = nodes[i]
            /\ node.prev_ = (IF i = 1 THEN NULL ELSE nodes[i - 1])

\* C18: list and index.  In every reachable state, in each container the
\* nodes reached from head_ by next_ are exactly the indexed nodes, each
\* once; head has no prev and tail no next; next_ and prev_ are inverse to
\* each other; head_ and tail_ are null exactly when the index is empty.
\* A node unlinked by Evict or Remove is freed and in no list and no
\* index; a node unlinked by promotion is in neither the list nor the
\* index of the young container.
ListMatchesIndex ==
    /\ WellLinked(State, "young")
    /\ WellLinked(State, "old")
    /\ \A a \in DOMAIN mem :
        ~mem[a].live => a \notin Indexed(State, "young") \cup Indexed(State, "old")
    /\ (lruLast.op \in {"Evict", "Remove"} /\ lruLast.ok /\ lruLast.fid \in Tracked(lruLast.pre)) =>
        LET a == Addr(lruLast.fid) IN
        /\ ~mem[a].live
        /\ \A c \in {"young", "old"} :
            /\ lruLast.fid \notin InContainer(State, c)
            /\ \A i \in 1..Len(NodesOf(State, c)) : NodesOf(State, c)[i] # a
    /\ (/\ lruLast.op = "RecordAccess"
        /\ ~lruLast.thrown
        /\ lruLast.fid \in InContainer(lruLast.pre, "young")
        /\ lruLast.fid \in InContainer(State, "old")) =>
        /\ lruLast.fid \notin InContainer(State, "young")
        /\ \A i \in 1..Len(NodesOf(State, "young")) :
            NodesOf(State, "young")[i] # Addr(lruLast.fid)

\* the middle one of three young frames has been promoted: the young list
\* closes over the gap and the old list holds the promoted node
ListMatchesIndexWitness ==
    /\ lruLast.op = "RecordAccess"
    /\ ~lruLast.thrown
    /\ Len(NodesOf(lruLast.pre, "young")) = 3
    /\ NodesOf(lruLast.pre, "young")[2] = Addr(lruLast.fid)
    /\ Len(NodesOf(State, "young")) = 2
    /\ NodesOf(State, "old") = <<Addr(lruLast.fid)>>

\* C19: RecordAccess and evictability.  A successful RecordAccess on a
\* frame that was not tracked (never seen, or evicted or removed since)
\* leaves it tracked, not evictable, with a history of one entry; on a
\* tracked frame, promotion from young to old included, it leaves the
\* frame's is_evictable_ flag as it was.  In both cases every other
\* frame's flag and Size() are unchanged.
AccessKeepsEvictability ==
    (lruLast.op = "RecordAccess" /\ ~lruLast.thrown) =>
        LET pre == lruLast.pre
            f == lruLast.fid IN
        /\ f \in Tracked(State)
        /\ f \notin Tracked(pre) =>
            /\ ~NodeOf(State, f).is_evictable_
            /\ Len(NodeOf(State, f).history_) = 1
        /\ f \in Tracked(pre) =>
            NodeOf(State, f).is_evictable_ = NodeOf(pre, f).is_evictable_
        /\ \A g \in Tracked(pre) \ {f} :
            /\ g \in Tracked(State)
            /\ NodeOf(State, g).is_evictable_ = NodeOf(pre, g).is_evictable_
        /\ curr_size_ = pre.curr_size_
        /\ EvictableFrames(State) = EvictableFrames(pre)

\* with K = 2, an evictable young frame has been promoted by its second
\* access and is evictable in the old container
AccessKeepsEvictabilityWitness ==
    /\ lruLast.op = "RecordAccess"
    /\ ~lruLast.thrown
    /\ lruLast.fid \in EvictableIn(lruLast.pre, "young")
    /\ lruLast.fid \in EvictableIn(State, "old")
    /\ curr_size_ >= 1

(***************************************************************************)
(* Structural sharing of the trie                                          *)
(***************************************************************************)
\* the nodes the walk along key visits in the trie rooted at n
RECURSIVE PathNodes(_, _, _)
PathNodes(h, n, key) ==
    IF n = NULL THEN {}
    ELSE IF key = <<>> \/ Head(key) \notin DOMAIN h[n].children THEN {n}
    ELSE {n} \cup PathNodes(h, h[n].children[Head(key)], Tail(key))

\* the node at the end of key in the trie rooted at n, NULL if there is none
RECURSIVE NodeAt(_, _, _)
NodeAt(h, n, key) ==
    IF n = NULL THEN NULL
    ELSE IF key = <<>> THEN n
    ELSE IF Head(key) \notin DOMAIN h[n].children THEN NULL
    ELSE NodeAt(h, h[n].children[Head(key)], Tail(key))

\* C20: structural sharing on Put.  After t' = t.Put(k, v) every node of t
\* off the path of k is a node of t' at the same address with the same
\* content; the nodes of t' that are not nodes of t are exactly the
\* Len(k) + 1 nodes on the path of k in t', all freshly allocated; no node
\* on the path of k in t is a node of t'; and the children of the new
\* terminal node are the very children of the old terminal node.
SharedOffPath ==
    (HasLast /\ Last.op = "Put") =>
        LET old == Last.heap
            t == Last.src
            offPath == Reach(old, t) \ PathNodes(old, t, Last.key)
            fresh == Reach(heap, root_) \ Reach(old, t)
            was == NodeAt(old, t, Last.key)
            now == NodeAt(heap, root_, Last.key)
        IN  /\ \A n \in offPath : n \in Reach(heap, root_) /\ heap[n] = old[n]
            /\ fresh = PathNodes(heap, root_, Last.key)
            /\ Cardinality(fresh) = Len(Last.key) + 1
            /\ \A n \in fresh : n > Len(old)
            /\ PathNodes(old, t, Last.key) \cap Reach(heap, root_) = {}
            /\ now # NULL
            /\ was # NULL => heap[now].children = old[was].children

\* a Put on a key whose terminal node has a child, in a trie with a second
\* branch: the child and the other branch are shared, the path is new
SharedOffPathWitness ==
    /\ HasLast
    /\ Last.op = "Put"
    /\ Len(Last.key) = 1
    /\ LET was == NodeAt(Last.heap, Last.src, Last.key) IN
        /\ was # NULL
        /\ DOMAIN Last.heap[was].children # {}
        /\ Cardinality(DOMAIN Last.heap[Last.src].children) = 2
        /\ heap[NodeAt(heap, root_, Last.key)].children = Last.heap[was].children

\* C14: timestamps under concurrency.  Whatever the interleaving of
\* RecordAccess calls of several threads, with a clock that never goes
\* back, current_timestamp_ never decreases: a call never applies a
\* timestamp older than the one applied by a call that took the latch
\* before it.
TimestampNeverDecreases ==
    (lruLast.op = "RecordAccess" /\ ~lruLast.thrown) =>
        current_timestamp_ >= lruLast.pre.current_timestamp_

\* C17: histories.  In every reachable state, also when several threads
\* call RecordAccess on the same frame at the same time, every tracked
\* frame keeps between 1 and K timestamps, newest first (non-increasing
\* from front to back); a RecordAccess on a frame with K timestamps drops
\* the oldest and puts the new one in front.
HistoryNewestFirst ==
    /\ \A f \in Tracked(State) :
        LET h == NodeOf(State, f).history_ IN
        /\ Len(h) >= 1
        /\ Len(h) <= k_
        /\ \A i \in 1..(Len(h) - 1) : h[i] >= h[i + 1]
    /\ (/\ lruLast.op = "RecordAccess"
        /\ ~lruLast.thrown
        /\ lruLast.fid \in Tracked(lruLast.pre)
        /\ Len(NodeOf(lruLast.pre, lruLast.fid).history_) = k_) =>
        LET before == NodeOf(lruLast.pre, lruLast.fid).history_ IN
        NodeOf(State, lruLast.fid).history_ =
            <<current_timestamp_>> \o SubSeq(before, 1, k_ - 1)

\* the part of C17 that holds under every interleaving: between 1 and K
\* timestamps, the oldest dropped when a frame with K is accessed
HistoryBounded ==
    /\ \A f \in Tracked(State) :
        Len(NodeOf(State, f).history_) >= 1 /\ Len(NodeOf(State, f).history_) <= k_
    /\ (/\ lruLast.op = "RecordAccess"
        /\ ~lruLast.thrown
        /\ lruLast.fid \in Tracked(lruLast.pre)
        /\ Len(NodeOf(lruLast.pre, lruLast.fid).history_) = k_) =>
        LET before == NodeOf(lruLast.pre, lruLast.fid).history_ IN
        NodeOf(State, lruLast.fid).history_ =
            <<current_timestamp_>> \o SubSeq(before, 1, k_ - 1)

====
